---- MODULE Spec2Model ----
(***************************************************************************)
(* Conversation extraction and dataset preprocessing pipeline.             *)
(*                                                                         *)
(* DataPreprocessor.split_posts_replies partitions the input table batch   *)
(* by batch into a posts file and a replies file; ConversationExtractor    *)
(* loads the replies file batch by batch into the conversation_map table   *)
(* (tweet_id TEXT PRIMARY KEY, INSERT OR IGNORE), groups the stored rows   *)
(* by reply_to_id, fetches the members of every group that is large        *)
(* enough, orders them by created_at and filters the threads on the text   *)
(* of their first message.                                                 *)
(*                                                                         *)
(* Ids are integer-valued numbers below 2^53, for which the '.0f' format   *)
(* prints the exact integer.  created_at is the value of the TEXT column,  *)
(* represented by its rank in SQLite's collation, which is the order       *)
(* ORDER BY created_at uses.  A text is represented by the features the    *)
(* quality filter inspects.  SQL leaves the order of rows that compare     *)
(* equal under ORDER BY unspecified: every such order is a behaviour.      *)
(*                                                                         *)
(* The replies table is an input of the extractor.  In Spec its rows are   *)
(* drawn as they are read, one row of the current batch at a time; in      *)
(* SpecPipeline they are the rows split_posts_replies has written.         *)
(***************************************************************************)
EXTENDS Integers, Sequences, FiniteSets, TLC

\* Bounds of the model.
MaxRows == 2
MaxId == 2
MaxTime == 2
MaxMinSize == 2
ChunkSize == 1
PipeRows == 2
PreChunkSize == 1
GroupMaxRows == 3
GroupMaxId == 3
FilterMaxRows == 2
FilterChunkSize == 2
UserMaxRows == 3
UserChunkSize == 2
RawMaxRows == 3
RawChunkSize == 2
MaxRuns == 2
StreamMaxRows == 3
StreamChunkSize == 2

\* A missing value (NaN / None / SQL NULL) in an id column.
NULL == 0
\* A missing value in the reply_to_user column.
NoUser == "NaN"
\* float('inf'), the initial min_conversation_length.
Inf == -1
\* Default min_length of filter_conversations and filter_tweets.
min_length == 25
\* Default min_length of filter_tweets in the whole-DataFrame revision.
old_min_length == 10
\* Default min_conversation_size of ConversationExtractor.
DefaultMinSize == 2

\* Ids of the rows of a table; a reply can also target an id that no row of
\* the table carries.
Ids == 1..MaxId
TargetIds == 1..(MaxId + 1)
NullableIds == {NULL} \cup Ids
NullableTargets == {NULL} \cup TargetIds
Times == 1..MaxTime
Users == {NoUser, "A"}

\* A value of the original_user_id column as pandas holds it: an integer of
\* an int64 column or a float of a float64 column; NaN, a float, is id NULL.
IntCell(n) == [id |-> n, float |-> FALSE]
FloatCell(n) == [id |-> n, float |-> TRUE]
NoAuthor == FloatCell(NULL)
Authors == {IntCell(1)}

\* Two texts: one that passes every rule and one that contains a URL.
GoodText ==
    [is_str |-> TRUE, has_url |-> FALSE, mentions |-> 0, clean_len |-> 30,
     emoji_only |-> FALSE, lang |-> "en"]
UrlText ==
    [is_str |-> TRUE, has_url |-> TRUE, mentions |-> 0, clean_len |-> 30,
     emoji_only |-> FALSE, lang |-> "en"]
Texts == {GoodText, UrlText}

\* A text that passes every rule and holds a line break: the record takes two
\* lines of the CSV file.
TwoLineText ==
    [is_str |-> TRUE, has_url |-> FALSE, mentions |-> 0, clean_len |-> 30,
     emoji_only |-> FALSE, lang |-> "en", line_breaks |-> 1]

\* A value of the full_text column that is not a string (NaN for an empty cell).
NaNText ==
    [is_str |-> FALSE, has_url |-> FALSE, mentions |-> 0, clean_len |-> 0,
     emoji_only |-> FALSE, lang |-> "none"]

\* The texts given to the quality filter.  lang is what the text is written
\* in: "mixed" is a text that is short or ambiguous between two languages,
\* "none" a text without any language feature.
FilterTexts ==
    {NaNText} \cup
    [is_str : {TRUE}, has_url : BOOLEAN, mentions : 0..2, clean_len : {24, 25, 30},
     emoji_only : BOOLEAN, lang : {"en", "de", "mixed", "none"}]

\* The texts given to the filter of the whole-DataFrame revision: rest_len is
\* the length of the text once URLs are removed and the rest is trimmed,
\* rest_emoji_only and rest_only_mentions describe that rest.
OldTexts ==
    [is_str : BOOLEAN, has_url : BOOLEAN, rest_len : {0, 9, 14},
     rest_emoji_only : BOOLEAN, rest_only_mentions : BOOLEAN]

\* Texts described for both revisions of the post filter: a plain English
\* text, the same with a URL after it, and a plain German text, each of 30
\* characters without its URL.
PlainPair ==
    [is_str |-> TRUE, has_url |-> FALSE, mentions |-> 0, clean_len |-> 30,
     emoji_only |-> FALSE, lang |-> "en",
     rest_len |-> 30, rest_emoji_only |-> FALSE, rest_only_mentions |-> FALSE]
UrlPair == [PlainPair EXCEPT !.has_url = TRUE, !.clean_len = 50]
GermanPair == [PlainPair EXCEPT !.lang = "de"]
PairTexts == {PlainPair, UrlPair, GermanPair}

\* An exception other than LangDetectException raised inside a sub-check, and
\* the texts on which such exceptions are injected.
Faults == {"regex", "emoji", "detect"}
EmojiText ==
    [is_str |-> TRUE, has_url |-> FALSE, mentions |-> 0, clean_len |-> 30,
     emoji_only |-> TRUE, lang |-> "none"]
FaultTexts == {NaNText, GoodText, UrlText, EmojiText}

\* Rows of the replies table given to ConversationExtractor.
ReplyRows ==
    [tweet_id : NullableIds, reply_to_id : NullableTargets, reply_to_user : {"A"},
     created_at : Times, full_text : Texts, original_user_id : Authors]

\* Rows of the input table given to DataPreprocessor.  The partition reads
\* neither created_at nor full_text; one created_at value keeps the table small.
InputRows ==
    [tweet_id : Ids, reply_to_id : NullableTargets, reply_to_user : Users,
     created_at : {1}, full_text : Texts, original_user_id : Authors]

\* Rows of a replies table whose rows differ in their id and reply target only.
GroupRows ==
    [tweet_id : 1..GroupMaxId, reply_to_id : {NULL} \cup 1..GroupMaxId,
     reply_to_user : {"A"}, created_at : {1}, full_text : {GoodText},
     original_user_id : Authors]

\* Rows of an input table whose authors vary: row i has tweet_id i, and its
\* author cell is empty or holds an integer.
UserCells ==
    [reply_to_id : {NULL, 1}, full_text : Texts,
     original_user_id : {NoAuthor, IntCell(1), IntCell(2)}]

UserRow(i, c) ==
    [tweet_id |-> i, reply_to_id |-> c.reply_to_id, reply_to_user |-> NoUser,
     created_at |-> 1, full_text |-> c.full_text,
     original_user_id |-> c.original_user_id]

UserInputs(k) ==
    {[i \in 1..k |-> UserRow(i, cells[i])] : cells \in [1..k -> UserCells]}

\* A cell of an id column of the replies file as it is written in the CSV:
\* an integer ("12"), a float ("12.0"), something that is not a number
\* ("12x") or nothing.
\* The rows of an input file some of whose texts hold a line break.
StreamCells == [reply_to_id : {NULL, 1}, full_text : {GoodText, TwoLineText},
                original_user_id : {IntCell(1)}]

StreamInputs(k) ==
    {[i \in 1..k |-> UserRow(i, cells[i])] : cells \in [1..k -> StreamCells]}

\* The rows of an input file of posts and replies with texts that pass the
\* filter and texts that do not.
WriteCells == [reply_to_id : {NULL, 1}, full_text : Texts, original_user_id : {IntCell(1)}]

WriteInputs(k) ==
    {[i \in 1..k |-> UserRow(i, cells[i])] : cells \in [1..k -> WriteCells]}

RawCells ==
    {[form |-> "empty", val |-> NULL], [form |-> "bad", val |-> NULL]}
        \cup [form : {"int", "float"}, val : Ids]

\* The reply_to_id cells: the replies of the table all target message 1.
RawTargets ==
    {[form |-> "empty", val |-> NULL], [form |-> "bad", val |-> NULL],
     [form |-> "int", val |-> 1], [form |-> "float", val |-> 1]}

RawRows == [tweet_id : RawCells, reply_to_id : RawTargets]

SeqsUpTo(S, n) == UNION {[1..k -> S] : k \in 1..n}

VARIABLES
    input,                  \* DataPreprocessor.input_file
    chunk_size,             \* DataPreprocessor.chunk_size
    split_pos,              \* rows of input_file read by split_posts_replies
    posts_file,             \* intermediate_posts.csv
    replies_file,           \* intermediate_replies.csv / ConversationExtractor.replies_file
    filtered_posts,         \* filtered_posts.csv
    user_groups,            \* the dict group_users_by_id returns
    min_conversation_size,  \* ConversationExtractor.min_conversation_size
    pc,                     \* position in process() / extract_conversations()
    pos,                    \* rows of replies_file read by extract_conversations
    replies_len,            \* number of rows of replies_file
    db,                     \* the conversation_map table, by tweet_id
    ignored,                \* history: rows INSERT OR IGNORE has skipped as duplicates
    stored_in,              \* history: the batch each stored row was read in
    potential_threads,      \* rows of the grouping query not yet assembled
    conversations,          \* the conversations dict, in insertion order
    result,                 \* filtered_conversations, as returned
    stats,                  \* ConversationExtractor.conversation_stats
    failed,                 \* history: the root ids whose assembly raised
    revision,               \* the revision of filter_tweets that runs
    ft_len,                 \* number of rows of the file filter_tweets reads
    ft_pos,                 \* rows of that file read
    ft_pending,             \* rows of the current chunk that were accepted
    ft_written,             \* rows appended to the output file
    cur,                    \* the last call of is_valid_tweet and its outcome
    prev_same,              \* history: outcome of the call before, if on the same text
    ft_calls,               \* history: number of calls of is_valid_tweet
    ft_caught,              \* history: number of calls in which an exception was caught
    ft_accepted,            \* history: number of calls that returned True
    headers,                \* header lines written to each of the two intermediate files
    runs,                   \* history: number of runs of process() started
    output_dir,             \* the second of the clock that names self.output_dir
    batches,                \* batches _process_csv_chunks has yielded in this run
    filter_pos,             \* rows of intermediate_posts.csv read by filter_tweets
    filter_batches,         \* batches filter_tweets has read
    filtered_headers,       \* header lines written to filtered_posts.csv
    lost,                   \* history: accepted rows of batches whose write failed
    root_cur,               \* the last call of is_valid_root and its outcome
    last_chunk              \* the id columns of the last batch _process_chunk was given

vars ==
    <<input, chunk_size, split_pos, posts_file, replies_file, filtered_posts,
      user_groups,
      min_conversation_size, pc, pos, replies_len, db, ignored, stored_in,
      potential_threads, conversations, result, stats, failed,
      revision, ft_len, ft_pos, ft_pending, ft_written, cur, prev_same,
      ft_calls, ft_caught, ft_accepted, headers, runs, output_dir, batches,
      filter_pos, filter_batches, filtered_headers, lost, root_cur, last_chunk>>

pipeVars ==
    <<input, chunk_size, split_pos, posts_file, filtered_posts, user_groups>>
indexVars == <<pos, db, ignored, stored_in>>
faultVars == <<failed>>
rawVars == <<last_chunk>>
runVars == <<headers, runs, output_dir>>
writeVars == <<batches>>
filterVars == <<filter_pos, filter_batches, filtered_headers, lost>>
sameVars == <<root_cur>>
evalVars ==
    <<revision, ft_len, ft_pos, ft_pending, ft_written, cur, prev_same,
      ft_calls, ft_caught, ft_accepted>>

----------------------------------------------------------------------------
\* Helpers

Min(a, b) == IF a < b THEN a ELSE b
Max(a, b) == IF a > b THEN a ELSE b

\* All sequences that enumerate the finite set S without repetition.
Perms(S) ==
    {s \in [1..Cardinality(S) -> S] : \A x \in S : \E i \in DOMAIN s : s[i] = x}

\* pd.read_csv(file, chunksize=n): the batch that starts after row p.
ReadChunkShort(file, p, n) == SubSeq(file, p + 1, Min(p + n, Len(file)) - 1)
ReadChunk(file, p, n) == SubSeq(file, p + 1, Min(p + n, Len(file)))

\* The iterator of pd.read_csv(file, chunksize=n) has a batch to yield when p
\* rows are read and it has yielded that many batches: the first read gives a
\* batch even when the file has no data row, a later read at the end of the
\* file ends the iteration.
MoreBatches(file, p, yielded) == p < Len(file) \/ yielded = 0

\* The lines of the CSV file a record takes.
Lines(row) ==
    IF "line_breaks" \in DOMAIN row.full_text THEN 1 + row.full_text.line_breaks ELSE 1

\* _count_rows: the lines of the file, less one for the header.
RECURSIVE count_lines(_)
count_lines(file) == IF file = <<>> THEN 0 ELSE Lines(Head(file)) + count_lines(Tail(file))
count_rows(file) == (1 + count_lines(file)) - 1

\* The read position after that batch.
NextPos(file, p, n) == Min(p + n, Len(file))

\* The dtype pandas infers for the original_user_id column of a batch: float64
\* when a cell is empty or holds a float, int64 otherwise.  Every cell of the
\* batch has that dtype, and to_csv writes it as such.
InferDtype(chunk) ==
    IF \E i \in DOMAIN chunk : chunk[i].original_user_id.float
    THEN [i \in DOMAIN chunk |->
            [chunk[i] EXCEPT !.original_user_id = FloatCell(@.id)]]
    ELSE chunk

\* for chunk in pd.read_csv(file, chunksize=n)
read_csv(file, p, n) == InferDtype(ReadChunk(file, p, n))

----------------------------------------------------------------------------
\* QualityFilter

is_valid_root(text) ==
    /\ text.is_str
    /\ ~text.has_url
    /\ text.mentions <= 1
    /\ text.clean_len >= min_length
    /\ ~text.emoji_only
    /\ text.lang = "en"

\* langdetect.detect raises LangDetectException on a text without features.
LangDetectException == "LangDetectException"

\* The results detect(clean_text) can give.  No seed is set for the detector:
\* on a short or ambiguous text the result varies from call to call.
DetectOutcomes(text) ==
    CASE text.lang = "mixed" -> {"en", "de"}
      [] text.lang = "none" -> {LangDetectException}
      [] OTHER -> {text.lang}

\* lang != 'en'
AnyLanguage(lang) == TRUE
IsEnglish(lang) == lang = "en"

\* The body of is_valid_tweet / is_valid_root inside its try: "accept" for
\* return True, "reject" for return False, "raise" for an exception that
\* leaves the body.  detected is the result of detect; fault is the sub-check
\* that raises, if it is reached.
tweet_checks(text, detected, fault) ==
    IF ~text.is_str THEN "reject"
    ELSE IF fault = "regex" THEN "raise"
    ELSE IF text.has_url THEN "reject"
    ELSE IF text.mentions > 1 THEN "reject"
    ELSE IF text.clean_len < min_length THEN "reject"
    ELSE IF fault = "emoji" THEN "raise"
    ELSE IF text.emoji_only THEN "reject"
    ELSE IF fault = "detect" THEN "raise"
    ELSE IF detected = LangDetectException THEN "reject"
    ELSE IF ~IsEnglish(detected) THEN "reject"
    ELSE "accept"

\* except Exception: return False
Propagate(outcome) == outcome
CatchAll(outcome) == IF outcome = "raise" THEN "reject" ELSE outcome

is_valid_tweet(text, detected, fault) == CatchAll(tweet_checks(text, detected, fault))

\* is_valid_tweet of the whole-DataFrame revision, which has no try.
old_is_valid_tweet(text) ==
    IF ~text.is_str THEN "reject"
    ELSE IF text.rest_len = 0 THEN "reject"
    ELSE IF text.rest_len < old_min_length THEN "reject"
    ELSE IF text.rest_emoji_only THEN "reject"
    ELSE IF text.rest_only_mentions THEN "reject"
    ELSE "accept"

\* is_valid_root of filter_conversations, a call with its own result of detect.
is_valid_root_call(text, detected, fault) == CatchAll(tweet_checks(text, detected, fault))

NoCall == [outcome |-> "none"]

\* The row read is the last of its chunk.
LastOfChunk(p, len) == (p + 1) % chunk_size = 0 \/ p + 1 = len

\* The read position after the chunk of row p + 1.
ChunkEnd(p, len) == Min(((p \div chunk_size) + 1) * chunk_size, len)

\* filter_tweets on the next row of its input: chunk.apply calls is_valid_tweet
\* on the row; the accepted rows of a chunk are appended to the output file when
\* the chunk is done; an exception that leaves chunk.apply is logged by the loop
\* and the chunk is given up.
ApplyToRow(text, detected, fault) ==
    LET outcome == is_valid_tweet(text, detected, fault)
        accepted == IF outcome = "accept" THEN 1 ELSE 0
    IN /\ cur' = [text |-> text, detected |-> detected, fault |-> fault,
                  outcome |-> outcome]
       /\ prev_same' =
             IF cur # NoCall /\ cur.text = text /\ cur.fault = "none" /\ fault = "none"
             THEN cur.outcome ELSE "none"
       /\ ft_calls' = ft_calls + 1
       /\ ft_caught' = IF tweet_checks(text, detected, fault) = "raise" /\ outcome # "raise"
                       THEN ft_caught + 1 ELSE ft_caught
       /\ ft_accepted' = ft_accepted + accepted
       /\ IF outcome = "raise"
          THEN /\ ft_pos' = ChunkEnd(ft_pos, ft_len)
               /\ ft_pending' = 0
               /\ ft_written' = ft_written
          ELSE /\ ft_pos' = ft_pos + 1
               /\ IF LastOfChunk(ft_pos, ft_len)
                  THEN /\ ft_written' = ft_written + ft_pending + accepted
                       /\ ft_pending' = 0
                  ELSE /\ ft_written' = ft_written
                       /\ ft_pending' = ft_pending + accepted
       /\ UNCHANGED <<pipeVars, replies_file, replies_len, min_conversation_size, pc,
                      indexVars, potential_threads, conversations, result, stats,
                      faultVars, revision, ft_len, rawVars, runVars, writeVars, filterVars, sameVars>>

\* A row on which no sub-check raises anything but LangDetectException.
EvaluateTweet ==
    /\ revision = "chunked"
    /\ ft_pos < ft_len
    /\ \E text \in FilterTexts :
         \E detected \in DetectOutcomes(text) : ApplyToRow(text, detected, "none")

\* A row on which a sub-check raises, if the call gets to it.
EvaluateTweetFault ==
    /\ revision = "chunked"
    /\ ft_pos < ft_len
    /\ \E text \in FaultTexts, fault \in Faults :
         \E detected \in DetectOutcomes(text) : ApplyToRow(text, detected, fault)

\* filter_tweets of the whole-DataFrame revision on the next row of df.
EvaluateTweetOld ==
    /\ revision = "dataframe"
    /\ ft_pos < ft_len
    /\ \E text \in OldTexts :
         LET outcome == old_is_valid_tweet(text)
             accepted == IF outcome = "accept" THEN 1 ELSE 0
         IN /\ cur' = [text |-> text, detected |-> "none", fault |-> "none",
                       outcome |-> outcome]
            /\ prev_same' = IF cur # NoCall /\ cur.text = text THEN cur.outcome ELSE "none"
            /\ ft_calls' = ft_calls + 1
            /\ ft_caught' = ft_caught
            /\ ft_accepted' = ft_accepted + accepted
            /\ ft_pos' = ft_pos + 1
            /\ IF ft_pos + 1 = ft_len
               THEN /\ ft_written' = ft_written + ft_pending + accepted
                    /\ ft_pending' = 0
               ELSE /\ ft_written' = ft_written
                    /\ ft_pending' = ft_pending + accepted
    /\ UNCHANGED <<pipeVars, replies_file, replies_len, min_conversation_size, pc,
                   indexVars, potential_threads, conversations, result, stats,
                   faultVars, revision, ft_len, rawVars, runVars, writeVars, filterVars, sameVars>>

\* A text is given to the post filter in filter_tweets and, as the text of a
\* thread root, to the root filter in filter_conversations: two calls, each
\* with its own call of detect.
CompareFilters ==
    /\ revision = "chunked"
    /\ \E text \in FilterTexts :
         \E post_detected \in DetectOutcomes(text), root_detected \in DetectOutcomes(text) :
            /\ cur' = [text |-> text, detected |-> post_detected, fault |-> "none",
                       outcome |-> is_valid_tweet(text, post_detected, "none")]
            /\ root_cur' = [text |-> text, detected |-> root_detected, fault |-> "none",
                            outcome |-> is_valid_root_call(text, root_detected, "none")]
    /\ UNCHANGED <<pipeVars, replies_file, replies_len, min_conversation_size, pc,
                   indexVars, potential_threads, conversations, result, stats,
                   faultVars, revision, ft_len, ft_pos, ft_pending, ft_written,
                   prev_same, ft_calls, ft_caught, ft_accepted, rawVars, runVars,
                   writeVars, filterVars>>

\* The same with the post filter of the whole-DataFrame revision.
CompareFiltersOld ==
    /\ revision = "dataframe"
    /\ \E text \in PairTexts :
         \E root_detected \in DetectOutcomes(text) :
            /\ cur' = [text |-> text, detected |-> "none", fault |-> "none",
                       outcome |-> old_is_valid_tweet(text)]
            /\ root_cur' = [text |-> text, detected |-> root_detected, fault |-> "none",
                            outcome |-> is_valid_root_call(text, root_detected, "none")]
    /\ UNCHANGED <<pipeVars, replies_file, replies_len, min_conversation_size, pc,
                   indexVars, potential_threads, conversations, result, stats,
                   faultVars, revision, ft_len, ft_pos, ft_pending, ft_written,
                   prev_same, ft_calls, ft_caught, ft_accepted, rawVars, runVars,
                   writeVars, filterVars>>

----------------------------------------------------------------------------
\* Partitioner

is_reply_and(row) == row.reply_to_id # NULL /\ row.reply_to_user # NoUser
is_reply(row) == row.reply_to_id # NULL \/ row.reply_to_user # NoUser

IsPost(row) == ~is_reply(row)

\* The local variable header of split_posts_replies: True until the first
\* batch of the run is written.
header == batches = 0

\* One iteration of the loop of split_posts_replies.
SplitChunk ==
    /\ pc = "split"
    /\ MoreBatches(input, split_pos, batches)
    /\ batches' = batches + 1
    /\ LET chunk == read_csv(input, split_pos, chunk_size)
       IN /\ posts_file' = posts_file \o SelectSeq(chunk, IsPost)
          /\ replies_file' = replies_file \o SelectSeq(chunk, is_reply)
    /\ headers' = IF header THEN headers + 1 ELSE headers
    /\ replies_len' = Len(replies_file')
    /\ split_pos' = NextPos(input, split_pos, chunk_size)
    /\ UNCHANGED <<input, chunk_size, filtered_posts, user_groups,
                   min_conversation_size, pc, indexVars,
                   potential_threads, conversations, result, stats, faultVars,
                   evalVars, rawVars, runs, output_dir, filterVars, sameVars>>

\* One iteration of the loop of split_posts_replies in which a to_csv call
\* raises (the disk is full, the file cannot be opened): the exception leaves
\* split_posts_replies and process().  The posts of the batch are written when
\* it is the write of the replies that fails.
SplitChunkFails ==
    /\ pc = "split"
    /\ MoreBatches(input, split_pos, batches)
    /\ batches' = batches + 1
    /\ \E posts_written \in BOOLEAN :
         posts_file' = IF posts_written
                       THEN posts_file \o SelectSeq(read_csv(input, split_pos, chunk_size), IsPost)
                       ELSE posts_file
    /\ pc' = "raised"
    /\ UNCHANGED <<input, chunk_size, split_pos, replies_file, replies_len,
                   filtered_posts, user_groups, min_conversation_size, indexVars,
                   potential_threads, conversations, result, stats, faultVars,
                   evalVars, rawVars, runVars, filterVars, sameVars>>

\* The process stops during split_posts_replies, between two batches or
\* before the first or after the last.
Crash ==
    /\ pc = "split"
    /\ pc' = "crashed"
    /\ UNCHANGED <<pipeVars, replies_file, replies_len, min_conversation_size,
                   indexVars, potential_threads, conversations, result, stats,
                   faultVars, evalVars, rawVars, runVars, writeVars, filterVars, sameVars>>

\* Files of the output directory named by second d: those already there when
\* the clock still shows the second of the previous run (os.makedirs with
\* exist_ok=True), none in a new directory.
FilesOf(d, file) == IF d = output_dir THEN file ELSE <<>>

\* process() is started again on the same input: _setup_output_directory
\* names the directory by the clock, and split_posts_replies starts at the
\* first batch.
Rerun ==
    /\ pc = "crashed"
    /\ runs < MaxRuns
    /\ runs' = runs + 1
    /\ \E d \in {output_dir, output_dir + 1} :
         /\ output_dir' = d
         /\ posts_file' = FilesOf(d, posts_file)
         /\ replies_file' = FilesOf(d, replies_file)
         /\ headers' = IF d = output_dir THEN headers ELSE 0
    /\ replies_len' = Len(replies_file')
    /\ split_pos' = 0
    /\ batches' = 0
    /\ pc' = "split"
    /\ UNCHANGED <<input, chunk_size, filtered_posts, user_groups,
                   min_conversation_size, indexVars, potential_threads,
                   conversations, result, stats, faultVars, evalVars, rawVars,
                   filterVars, sameVars>>

\* filter_tweets: the rows of every batch of the input file that pass the
\* filter, appended to the output file.
RECURSIVE filter_tweets(_, _, _)
filter_tweets(file, p, n) ==
    IF p >= Len(file) THEN <<>>
    ELSE SelectSeq(read_csv(file, p, n), LAMBDA r : is_valid_root(r.full_text))
            \o filter_tweets(file, NextPos(file, p, n), n)

\* str(row['original_user_id'])
AuthorKey(cell) ==
    IF cell.float THEN ToString(cell.id) \o ".0" ELSE ToString(cell.id)

\* The entry appended to the list of a user.
Summary(row) ==
    [tweet_id |-> row.tweet_id, full_text |-> row.full_text,
     created_at |-> row.created_at]

\* The body of the loop over the rows of a batch in group_users_by_id.
AppendPost(groups, row) ==
    IF row.original_user_id.id = NULL THEN groups
    ELSE LET key == AuthorKey(row.original_user_id)
         IN [k \in DOMAIN groups \cup {key} |->
               IF k = key
               THEN (IF key \in DOMAIN groups THEN groups[key] ELSE <<>>)
                       \o <<Summary(row)>>
               ELSE groups[k]]

RECURSIVE AppendPosts(_, _)
AppendPosts(groups, chunk) ==
    IF chunk = <<>> THEN groups
    ELSE AppendPosts(AppendPost(groups, Head(chunk)), Tail(chunk))

NoGroups == [k \in {} |-> <<>>]

RECURSIVE group_users_by_id(_, _, _, _)
group_users_by_id(groups, file, p, n) ==
    IF p >= Len(file) THEN groups
    ELSE group_users_by_id(AppendPosts(groups, read_csv(file, p, n)),
                           file, NextPos(file, p, n), n)

\* process(): after the split, filter_tweets writes filtered_posts.csv,
\* group_users_by_id groups its rows and the extractor is constructed on the
\* replies file.
FilterTweets ==
    /\ pc = "split"
    /\ ~MoreBatches(input, split_pos, batches)
    /\ filtered_posts' = filter_tweets(posts_file, 0, chunk_size)
    /\ filter_pos' = Len(posts_file)
    /\ filter_batches' = Max(1, (Len(posts_file) + chunk_size - 1) \div chunk_size)
    /\ filtered_headers' = 1
    /\ user_groups' = group_users_by_id(NoGroups, filtered_posts', 0, chunk_size)
    /\ pc' = "load"
    /\ UNCHANGED <<input, chunk_size, split_pos, posts_file, replies_file, replies_len,
                   min_conversation_size, indexVars, potential_threads,
                   conversations, result, stats, faultVars, evalVars, rawVars,
                   runVars, writeVars, lost, sameVars>>

\* The local variable header of filter_tweets: True until a batch is written.
header_every_batch == TRUE
filter_header == filtered_headers = 0

\* split_posts_replies has returned and filter_tweets has a batch to read.
CanFilter ==
    /\ pc = "split"
    /\ ~MoreBatches(input, split_pos, batches)
    /\ MoreBatches(posts_file, filter_pos, filter_batches)

\* The rows of the next batch of filter_tweets that pass the filter.
filtered_chunk ==
    SelectSeq(read_csv(posts_file, filter_pos, chunk_size),
              LAMBDA r : is_valid_root(r.full_text))

\* One iteration of the loop of filter_tweets.
FilterChunk ==
    /\ CanFilter
    /\ filtered_posts' = filtered_posts \o filtered_chunk
    /\ filtered_headers' = IF filter_header THEN filtered_headers + 1 ELSE filtered_headers
    /\ filter_pos' = NextPos(posts_file, filter_pos, chunk_size)
    /\ filter_batches' = filter_batches + 1
    /\ UNCHANGED <<input, chunk_size, split_pos, posts_file, replies_file, replies_len,
                   user_groups, min_conversation_size, pc, indexVars, potential_threads,
                   conversations, result, stats, faultVars, evalVars, rawVars,
                   runVars, writeVars, lost, sameVars>>

\* One iteration of the loop of filter_tweets in which to_csv raises before
\* it writes: the inner except clause logs the exception and the loop goes on
\* with the next batch.
FilterChunkFails ==
    /\ CanFilter
    /\ lost' = lost + Len(filtered_chunk)
    /\ filter_pos' = NextPos(posts_file, filter_pos, chunk_size)
    /\ filter_batches' = filter_batches + 1
    /\ UNCHANGED <<input, chunk_size, split_pos, posts_file, replies_file, replies_len,
                   filtered_posts, filtered_headers, user_groups, min_conversation_size,
                   pc, indexVars, potential_threads, conversations, result, stats,
                   faultVars, evalVars, rawVars, runVars, writeVars, sameVars>>

\* filter_tweets has returned.
FilterPassDone == filter_batches > 0 /\ ~MoreBatches(posts_file, filter_pos, filter_batches)

\* process() after filter_tweets: group_users_by_id on the filtered posts.
GroupUsers ==
    /\ pc = "split"
    /\ ~MoreBatches(input, split_pos, batches)
    /\ FilterPassDone
    /\ user_groups' = group_users_by_id(NoGroups, filtered_posts, 0, chunk_size)
    /\ pc' = "load"
    /\ UNCHANGED <<input, chunk_size, split_pos, posts_file, replies_file, replies_len,
                   filtered_posts, min_conversation_size, indexVars, potential_threads,
                   conversations, result, stats, faultVars, evalVars, rawVars,
                   runVars, writeVars, filterVars, sameVars>>

----------------------------------------------------------------------------
\* ThreadIndex

\* f'{x:.0f}' if pd.notna(x) else None
FormatId(x) == IF x = NULL THEN NULL ELSE x

\* The record inserted for a row of the replies table.
Record(row) ==
    [tweet_id |-> FormatId(row.tweet_id),
     reply_to_id |-> FormatId(row.reply_to_id),
     created_at |-> row.created_at,
     full_text |-> row.full_text,
     original_user_id |-> row.original_user_id]

RECURSIVE Records(_)
Records(chunk) ==
    IF chunk = <<>> THEN <<>> ELSE <<Record(Head(chunk))>> \o Records(Tail(chunk))

\* chunk.dropna(subset=['tweet_id'])
ValidData(records) == SelectSeq(records, LAMBDA r : r.tweet_id # NULL)

\* INSERT OR REPLACE: the last record of an id wins.
InsertOrReplace(table, rec) ==
    IF rec.tweet_id = NULL THEN table
    ELSE [i \in DOMAIN table \cup {rec.tweet_id} |->
            IF i = rec.tweet_id THEN rec ELSE table[i]]

\* INSERT OR IGNORE of one record: a NULL or already stored tweet_id is skipped.
InsertOrIgnore(table, rec) ==
    IF rec.tweet_id = NULL \/ rec.tweet_id \in DOMAIN table THEN table
    ELSE [i \in DOMAIN table \cup {rec.tweet_id} |->
            IF i = rec.tweet_id THEN rec ELSE table[i]]

RECURSIVE executemany(_, _)
executemany(table, records) ==
    IF records = <<>> THEN table
    ELSE executemany(InsertOrIgnore(table, Head(records)), Tail(records))

process_chunk(chunk, table) == executemany(table, ValidData(Records(chunk)))

\* The dtype pandas infers for an id column of a batch: object when a cell is
\* not a number, float64 when a cell is empty or a float, int64 otherwise.
ColumnDtype(cells) ==
    IF \E i \in DOMAIN cells : cells[i].form = "bad" THEN "object"
    ELSE IF \E i \in DOMAIN cells : cells[i].form \in {"empty", "float"} THEN "float64"
    ELSE "int64"

\* The value pandas holds for a cell of a column of that dtype: NaN for an
\* empty cell, the text of the cell in an object column, the number otherwise.
Typed(cell, dtype) ==
    IF cell.form = "empty" THEN [kind |-> "nan", val |-> NULL]
    ELSE IF dtype = "object" THEN [kind |-> "str", val |-> cell.val]
    ELSE IF dtype = "float64" THEN [kind |-> "float", val |-> cell.val]
    ELSE [kind |-> "int", val |-> cell.val]

\* The id columns of a batch as pd.read_csv gives them.
TypedChunk(rows) ==
    LET ids == ColumnDtype([i \in DOMAIN rows |-> rows[i].tweet_id])
        targets == ColumnDtype([i \in DOMAIN rows |-> rows[i].reply_to_id])
    IN [i \in DOMAIN rows |->
          [tweet_id |-> Typed(rows[i].tweet_id, ids),
           reply_to_id |-> Typed(rows[i].reply_to_id, targets)]]

\* f'{x:.0f}' if pd.notna(x) else None, on a value of any of these kinds: the
\* 'f' format code is not defined for str.
ValueError == -2
format_id(v) ==
    CASE v.kind = "nan" -> NULL
      [] v.kind = "str" -> ValueError
      [] OTHER -> FormatId(v.val)

\* The two apply calls of _process_chunk raise.
Raises(typed) ==
    \E i \in DOMAIN typed :
        ValueError \in {format_id(typed[i].tweet_id), format_id(typed[i].reply_to_id)}

\* The rows _process_chunk formats, with the other columns of the row.
FormattedRows(typed) ==
    [i \in DOMAIN typed |->
        [tweet_id |-> format_id(typed[i].tweet_id),
         reply_to_id |-> format_id(typed[i].reply_to_id),
         created_at |-> 1, full_text |-> GoodText, original_user_id |-> IntCell(1)]]

\* One iteration of the loading loop of extract_conversations on a batch whose
\* id cells are of any form.  An exception of _process_chunk is logged, rolled
\* back and raised again, and extract_conversations raises it to its caller.
LoadRawChunk ==
    /\ pc = "load"
    /\ pos < replies_len
    /\ \E rows \in [1..Min(RawChunkSize, replies_len - pos) -> RawRows] :
         LET typed == TypedChunk(rows)
         IN /\ last_chunk' = typed
            /\ IF Raises(typed)
               THEN /\ pc' = "raised"
                    /\ UNCHANGED <<db, ignored, stored_in>>
               ELSE /\ pc' = pc
                    /\ db' = executemany(db, ValidData(FormattedRows(typed)))
                    /\ ignored' = ignored + Len(ValidData(FormattedRows(typed)))
                                     - Cardinality(DOMAIN db' \ DOMAIN db)
                    /\ stored_in' = [i \in DOMAIN db' |->
                                        IF i \in DOMAIN db THEN stored_in[i]
                                        ELSE (pos \div RawChunkSize) + 1]
    /\ pos' = pos + Min(RawChunkSize, replies_len - pos)
    /\ UNCHANGED <<pipeVars, replies_file, replies_len, min_conversation_size,
                   potential_threads, conversations, result, stats, faultVars,
                   evalVars, runVars, writeVars, filterVars, sameVars>>

\* conn.rollback() in the except clause of _process_chunk: the table as it
\* was at the last commit, whatever the statement has inserted since.
keep_uncommitted(committed, uncommitted) == uncommitted
rollback(committed, uncommitted) == committed

\* One iteration of the loading loop in which executemany raises on row j of
\* the batch (sqlite3 cannot bind a value of the row): the rows before it are
\* inserted and not committed; _process_chunk rolls back and raises again.
LoadRawChunkInsertFails ==
    /\ pc = "load"
    /\ pos < replies_len
    /\ \E rows \in [1..Min(RawChunkSize, replies_len - pos) -> RawRows] :
         LET typed == TypedChunk(rows)
         IN /\ ~Raises(typed)
            /\ last_chunk' = typed
            /\ \E j \in DOMAIN typed :
                 db' = rollback(db, executemany(db,
                          ValidData(FormattedRows(SubSeq(typed, 1, j - 1)))))
    /\ pc' = "raised"
    /\ pos' = pos + Min(RawChunkSize, replies_len - pos)
    /\ UNCHANGED <<pipeVars, replies_file, replies_len, min_conversation_size,
                   ignored, stored_in, potential_threads, conversations, result,
                   stats, faultVars, evalVars, runVars, writeVars, filterVars,
                   sameVars>>

\* The loop over the batches of the replies file goes on: p rows of len are read.
FirstChunkOnly(len, p) == p = 0 /\ p < len
MoreChunks(len, p) == p < len

\* The batch the row after row p belongs to.
BatchNo(p) == (p \div ChunkSize) + 1

\* Row p is the last of its batch: the loop of extract_conversations is at its head.
AtBatchEnd(len, p) == p % ChunkSize = 0 \/ p = len

\* The next row of the current batch can be inserted.
CanInsert ==
    /\ pc = "load"
    /\ pos < replies_len
    /\ ~AtBatchEnd(replies_len, pos) \/ MoreChunks(replies_len, pos)

\* _process_chunk on one row of the batch.
InsertRow(row) ==
    /\ db' = process_chunk(<<row>>, db)
    /\ ignored' = IF FormatId(row.tweet_id) \in DOMAIN db THEN ignored + 1 ELSE ignored
    /\ stored_in' = [i \in DOMAIN db' |->
                        IF i \in DOMAIN db THEN stored_in[i] ELSE BatchNo(pos)]
    /\ pos' = pos + 1
    /\ UNCHANGED <<pipeVars, replies_file, replies_len, min_conversation_size, pc,
                   potential_threads, conversations, result, stats, faultVars, evalVars, rawVars, runVars, writeVars, filterVars, sameVars>>

\* The loading loop of extract_conversations on a replies table that is read
\* as the loop goes.
LoadRow ==
    /\ CanInsert
    /\ \E row \in ReplyRows : InsertRow(row)

\* The loading loop of extract_conversations on the replies file of the pipeline.
LoadFileRow ==
    /\ CanInsert
    /\ InsertRow(replies_file[pos + 1])

\* The loading loop of extract_conversations on a replies table with more rows
\* and fewer columns that vary.
LoadGroupRow ==
    /\ CanInsert
    /\ \E row \in GroupRows : InsertRow(row)

\* The ids of the stored rows whose reply_to_id is k.
ReplyIds(table, k) == {i \in DOMAIN table : table[i].reply_to_id = k}

\* The conversation_sizes table of the grouping query.
conversation_sizes(table, n) ==
    {[root_id |-> k, reply_count |-> Cardinality(ReplyIds(table, k)),
      reply_ids |-> ReplyIds(table, k)] :
        k \in {t \in {table[i].reply_to_id : i \in DOMAIN table} \ {NULL} :
                 Cardinality(ReplyIds(table, t)) >= n}}

\* ORDER BY reply_count DESC
AnyCountOrder(s) == TRUE
OrderedByCountDesc(s) ==
    \A i \in 1..(Len(s) - 1) : s[i].reply_count >= s[i + 1].reply_count

\* The possible results of the grouping query.
ThreadsWithMinSize(table, n) ==
    {s \in Perms(conversation_sizes(table, n)) : OrderedByCountDesc(s)}

\* The grouping query, issued when the loading loop has ended.
BuildThreads ==
    /\ pc = "load"
    /\ AtBatchEnd(replies_len, pos)
    /\ ~MoreChunks(replies_len, pos)
    /\ potential_threads' \in ThreadsWithMinSize(db, min_conversation_size)
    /\ pc' = "assemble"
    /\ UNCHANGED <<pipeVars, replies_file, replies_len, min_conversation_size,
                   indexVars, conversations, result, stats, faultVars, evalVars, rawVars, runVars, writeVars, filterVars, sameVars>>

----------------------------------------------------------------------------
\* ConversationAssembler

\* The ids bound to the placeholders of the per-thread query.
RepliesOnly(thread) == thread.reply_ids
QueryIds(thread) == {thread.root_id} \cup thread.reply_ids

\* ORDER BY created_at
Unordered(s) == TRUE
OrderedByCreatedAt(s) ==
    \A i \in 1..(Len(s) - 1) : s[i].created_at <= s[i + 1].created_at

\* WHERE tweet_id IN (...): the stored ids that match a bound id.
AnyStoredId(table, ids) == DOMAIN table
MatchingIds(table, ids) == ids \cap DOMAIN table

\* The possible results of the per-thread query.
FetchMessages(table, ids) ==
    {s \in Perms({table[i] : i \in MatchingIds(table, ids)}) : OrderedByCreatedAt(s)}

update_stats(st, conv_size, min_size) ==
    [st EXCEPT
        !.total_conversations = @ + 1,
        !.meaningful_conversations = IF conv_size >= min_size THEN @ + 1 ELSE @,
        !.max_conversation_length = Max(@, conv_size),
        !.min_conversation_length = IF @ = Inf THEN conv_size ELSE Min(@, conv_size),
        !.total_tweets_processed = @ + conv_size]

\* One iteration of the assembly loop of extract_conversations.
AssembleThread ==
    /\ pc = "assemble"
    /\ potential_threads # <<>>
    /\ LET thread == Head(potential_threads)
       IN \E messages \in FetchMessages(db, QueryIds(thread)) :
            IF Len(messages) >= min_conversation_size
            THEN /\ conversations' =
                        Append(conversations,
                               [root_id |-> thread.root_id, messages |-> messages])
                 /\ stats' = update_stats(stats, Len(messages), min_conversation_size)
            ELSE UNCHANGED <<conversations, stats>>
    /\ potential_threads' = Tail(potential_threads)
    /\ UNCHANGED <<pipeVars, replies_file, replies_len, min_conversation_size, pc,
                   indexVars, result, faultVars, evalVars, rawVars, runVars, writeVars, filterVars, sameVars>>

\* except Exception: log and continue with the next candidate thread.
AbortOnThreadError(threads) == <<>>
OnThreadError(threads) == Tail(threads)

\* One iteration of the assembly loop in which the per-thread query raises.
AssembleThreadFails ==
    /\ pc = "assemble"
    /\ potential_threads # <<>>
    /\ failed' = failed \cup {Head(potential_threads).root_id}
    /\ potential_threads' = OnThreadError(potential_threads)
    /\ UNCHANGED <<pipeVars, replies_file, replies_len, min_conversation_size, pc,
                   indexVars, conversations, result, stats, evalVars, rawVars, runVars, writeVars, filterVars, sameVars>>

\* root_message = messages[0]
RootMessage(messages) == messages[1]

\* The messages stored for a retained conversation.
ValidMessagesOnly(messages) ==
    SelectSeq(messages, LAMBDA m : is_valid_root(m.full_text))
RetainedMessages(messages) == messages

\* A conversation is retained.
Retained(conv) ==
    /\ conv.messages # <<>>
    /\ is_valid_root(RootMessage(conv.messages).full_text)

filter_conversations(convs) ==
    LET kept == SelectSeq(convs, Retained)
    IN [i \in DOMAIN kept |->
          [root_id |-> kept[i].root_id,
           messages |-> RetainedMessages(kept[i].messages)]]

recount_stats(st, total, kept) ==
    [st EXCEPT
        !.total_conversations = kept,
        !.total_conversations_before_filter = total,
        !.conversations_after_filter = kept,
        !.filter_retention_rate =
            IF total > 0 THEN <<kept * 100, total>> ELSE <<0, 1>>]

update_filtered_stats(st, total, kept) ==
    [st EXCEPT
        !.total_conversations_before_filter = total,
        !.conversations_after_filter = kept,
        !.filter_retention_rate =
            IF total > 0 THEN <<kept * 100, total>> ELSE <<0, 1>>]

\* a / b of Python on numbers: the quotient as a pair, or ZeroDivisionError.
ZeroDivisionError == <<0, 0>>
Divide(a, b) == IF b = 0 THEN ZeroDivisionError ELSE <<a, b>>

\* if self.conversation_stats['meaningful_conversations'] > 0
Unguarded(st) == TRUE
HasMeaningful(st) == st.meaningful_conversations > 0

\* get_conversation_stats: the average is written to the statistics and the
\* statistics are returned.
get_conversation_stats(st) ==
    IF HasMeaningful(st)
    THEN [st EXCEPT !.avg_conversation_length =
                        Divide(st.total_tweets_processed, st.meaningful_conversations)]
    ELSE st

\* A caller reads the statistics, at any point of the run.
ReadStats ==
    /\ stats' = get_conversation_stats(stats)
    /\ stats' # stats
    /\ UNCHANGED <<pipeVars, replies_file, replies_len, min_conversation_size, pc,
                   indexVars, potential_threads, conversations, result, faultVars,
                   evalVars, rawVars, runVars, writeVars, filterVars, sameVars>>

\* The end of extract_conversations: root filtering and return.
FilterConversations ==
    /\ pc = "assemble"
    /\ potential_threads = <<>>
    /\ result' = filter_conversations(conversations)
    /\ stats' = update_filtered_stats(stats, Len(conversations),
                                      Len(SelectSeq(conversations, Retained)))
    /\ pc' = "done"
    /\ UNCHANGED <<pipeVars, replies_file, replies_len, min_conversation_size,
                   indexVars, potential_threads, conversations, faultVars, evalVars, rawVars, runVars, writeVars, filterVars, sameVars>>

----------------------------------------------------------------------------
\* Specifications

init_stats ==
    [total_conversations |-> 0,
     meaningful_conversations |-> 0,
     total_tweets_processed |-> 0,
     max_conversation_length |-> 0,
     min_conversation_length |-> Inf,
     avg_conversation_length |-> <<0, 1>>,
     total_conversations_before_filter |-> 0,
     conversations_after_filter |-> 0,
     filter_retention_rate |-> <<0, 1>>]

\* No call of filter_tweets is followed row by row.
FilterInit ==
    /\ ft_pos = 0
    /\ ft_pending = 0
    /\ ft_written = 0
    /\ cur = NoCall
    /\ prev_same = "none"
    /\ ft_calls = 0
    /\ ft_caught = 0
    /\ ft_accepted = 0

NoFilterRun ==
    /\ revision = "chunked"
    /\ ft_len = 0
    /\ FilterInit

ExtractorInit ==
    /\ pos = 0
    /\ db = <<>>
    /\ ignored = 0
    /\ stored_in = <<>>
    /\ potential_threads = <<>>
    /\ conversations = <<>>
    /\ result = <<>>
    /\ stats = init_stats
    /\ failed = {}
    /\ last_chunk = <<>>
    /\ headers = 0
    /\ runs = 1
    /\ output_dir = 1
    /\ batches = 0
    /\ filter_pos = 0
    /\ filter_batches = 0
    /\ filtered_headers = 0
    /\ lost = 0
    /\ root_cur = NoCall

\* A ConversationExtractor constructed on a replies table.
Init ==
    /\ input = <<>>
    /\ chunk_size = PreChunkSize
    /\ split_pos = 0
    /\ posts_file = <<>>
    /\ filtered_posts = <<>>
    /\ user_groups = NoGroups
    /\ replies_file = <<>>
    /\ replies_len \in 0..MaxRows
    /\ min_conversation_size \in 1..MaxMinSize
    /\ pc = "load"
    /\ ExtractorInit
    /\ NoFilterRun

Next ==
    \/ LoadRow
    \/ BuildThreads
    \/ AssembleThread
    \/ FilterConversations

Spec == Init /\ [][Next]_vars

\* A DataPreprocessor constructed on an input table, before process(), which
\* constructs the extractor with the default min_conversation_size.
PipelineInit ==
    /\ input \in SeqsUpTo(InputRows, PipeRows)
    /\ chunk_size = PreChunkSize
    /\ split_pos = 0
    /\ posts_file = <<>>
    /\ filtered_posts = <<>>
    /\ user_groups = NoGroups
    /\ replies_file = <<>>
    /\ replies_len = 0
    /\ min_conversation_size = DefaultMinSize
    /\ pc = "split"
    /\ ExtractorInit
    /\ NoFilterRun

PipelineNext ==
    \/ SplitChunk
    \/ FilterTweets
    \/ LoadFileRow
    \/ BuildThreads
    \/ AssembleThread
    \/ FilterConversations

SpecPipeline == PipelineInit /\ [][PipelineNext]_vars

\* A ConversationExtractor constructed on a replies table of GroupRows.
GroupsInit ==
    /\ input = <<>>
    /\ chunk_size = PreChunkSize
    /\ split_pos = 0
    /\ posts_file = <<>>
    /\ filtered_posts = <<>>
    /\ user_groups = NoGroups
    /\ replies_file = <<>>
    /\ replies_len \in 0..GroupMaxRows
    /\ min_conversation_size \in 1..MaxMinSize
    /\ pc = "load"
    /\ ExtractorInit
    /\ NoFilterRun

GroupsNext ==
    \/ LoadGroupRow
    \/ BuildThreads
    \/ AssembleThread
    \/ FilterConversations

SpecGroups == GroupsInit /\ [][GroupsNext]_vars

\* The values of min_conversation_size a caller can pass to the constructor,
\* those that are not a size included.
MinSizes == {-1, 0} \cup (1..MaxMinSize)

\* A ConversationExtractor constructed with any of them.
ConfigInit ==
    /\ input = <<>>
    /\ chunk_size = PreChunkSize
    /\ split_pos = 0
    /\ posts_file = <<>>
    /\ filtered_posts = <<>>
    /\ user_groups = NoGroups
    /\ replies_file = <<>>
    /\ replies_len \in 0..GroupMaxRows
    /\ min_conversation_size \in MinSizes
    /\ pc = "load"
    /\ ExtractorInit
    /\ NoFilterRun

SpecConfig == ConfigInit /\ [][GroupsNext]_vars

\* The same run with a caller that reads the statistics at any point.
StatsNext ==
    \/ GroupsNext
    \/ ReadStats

SpecStats == GroupsInit /\ [][StatsNext]_vars

\* The same extractor when per-thread queries can raise.
FaultsNext ==
    \/ LoadGroupRow
    \/ BuildThreads
    \/ AssembleThread
    \/ AssembleThreadFails
    \/ FilterConversations

SpecFaults == GroupsInit /\ [][FaultsNext]_vars

\* filter_tweets, in either revision, on a table of texts.
FilterSpecInit ==
    /\ input = <<>>
    /\ chunk_size = FilterChunkSize
    /\ split_pos = 0
    /\ posts_file = <<>>
    /\ filtered_posts = <<>>
    /\ user_groups = NoGroups
    /\ replies_file = <<>>
    /\ replies_len = 0
    /\ min_conversation_size = DefaultMinSize
    /\ pc = "filter"
    /\ ExtractorInit
    /\ revision \in {"chunked", "dataframe"}
    /\ ft_len \in 1..FilterMaxRows
    /\ FilterInit

FilterNext ==
    \/ EvaluateTweet
    \/ EvaluateTweetFault
    \/ EvaluateTweetOld

SpecFilter == FilterSpecInit /\ [][FilterNext]_vars

\* The post filter and the root filter given the same texts.
SameNext ==
    \/ CompareFilters
    \/ CompareFiltersOld

SpecSame == FilterSpecInit /\ [][SameNext]_vars

\* A DataPreprocessor constructed with a chunk size on an input table whose
\* authors vary; process() up to the construction of the extractor.
UsersInit ==
    /\ \E k \in 1..UserMaxRows : input \in UserInputs(k)
    /\ chunk_size \in 1..UserChunkSize
    /\ split_pos = 0
    /\ posts_file = <<>>
    /\ filtered_posts = <<>>
    /\ user_groups = NoGroups
    /\ replies_file = <<>>
    /\ replies_len = 0
    /\ min_conversation_size = DefaultMinSize
    /\ pc = "split"
    /\ ExtractorInit
    /\ NoFilterRun

UsersNext ==
    \/ SplitChunk
    \/ FilterTweets

SpecUsers == UsersInit /\ [][UsersNext]_vars

\* A DataPreprocessor constructed on an input file of up to StreamMaxRows
\* records, with none, and with a chunk size of its caller's choice.
StreamInit ==
    /\ \E k \in 0..StreamMaxRows : input \in StreamInputs(k)
    /\ chunk_size \in 1..StreamChunkSize
    /\ split_pos = 0
    /\ posts_file = <<>>
    /\ filtered_posts = <<>>
    /\ user_groups = NoGroups
    /\ replies_file = <<>>
    /\ replies_len = 0
    /\ min_conversation_size = DefaultMinSize
    /\ pc = "split"
    /\ ExtractorInit
    /\ NoFilterRun

StreamNext ==
    \/ SplitChunk
    \/ FilterTweets

SpecStream == StreamInit /\ [][StreamNext]_vars

\* A DataPreprocessor whose process() is run to the grouping of the users,
\* batch by batch.
HeadersInit ==
    /\ \E k \in 0..StreamMaxRows : input \in WriteInputs(k)
    /\ chunk_size \in 1..StreamChunkSize
    /\ split_pos = 0
    /\ posts_file = <<>>
    /\ filtered_posts = <<>>
    /\ user_groups = NoGroups
    /\ replies_file = <<>>
    /\ replies_len = 0
    /\ min_conversation_size = DefaultMinSize
    /\ pc = "split"
    /\ ExtractorInit
    /\ NoFilterRun

HeadersNext ==
    \/ SplitChunk
    \/ FilterChunk
    \/ GroupUsers

SpecHeaders == HeadersInit /\ [][HeadersNext]_vars

\* The same run on a file system whose writes may fail.
WriteNext ==
    \/ HeadersNext
    \/ SplitChunkFails
    \/ FilterChunkFails

SpecWrite == HeadersInit /\ [][WriteNext]_vars

\* The partition pass of a DataPreprocessor that may stop and be run again.
RestartInputs(k) ==
    {[i \in 1..k |->
        UserRow(i, [reply_to_id |-> t[i], full_text |-> GoodText,
                    original_user_id |-> IntCell(1)])] :
       t \in [1..k -> {NULL, 1}]}

RestartInit ==
    /\ \E k \in 1..PipeRows : input \in RestartInputs(k)
    /\ chunk_size = PreChunkSize
    /\ split_pos = 0
    /\ posts_file = <<>>
    /\ filtered_posts = <<>>
    /\ user_groups = NoGroups
    /\ replies_file = <<>>
    /\ replies_len = 0
    /\ min_conversation_size = DefaultMinSize
    /\ pc = "split"
    /\ ExtractorInit
    /\ NoFilterRun

RestartNext ==
    \/ SplitChunk
    \/ Crash
    \/ Rerun

SpecRestart == RestartInit /\ [][RestartNext]_vars

\* A ConversationExtractor constructed on a replies file with id cells of
\* any form.
RawInit ==
    /\ input = <<>>
    /\ chunk_size = PreChunkSize
    /\ split_pos = 0
    /\ posts_file = <<>>
    /\ filtered_posts = <<>>
    /\ user_groups = NoGroups
    /\ replies_file = <<>>
    /\ replies_len \in 1..RawMaxRows
    /\ min_conversation_size = DefaultMinSize
    /\ pc = "load"
    /\ ExtractorInit
    /\ NoFilterRun

RawNext ==
    \/ LoadRawChunk
    \/ BuildThreads
    \/ AssembleThread
    \/ FilterConversations

SpecRaw == RawInit /\ [][RawNext]_vars

\* The same run on rows that the insert statement may fail on.
RollbackNext ==
    \/ RawNext
    \/ LoadRawChunkInsertFails

SpecRollback == RawInit /\ [][RollbackNext]_vars

----------------------------------------------------------------------------
\* Properties

MemberIds(messages) == {messages[i].tweet_id : i \in DOMAIN messages}

Count(s, r) == Cardinality({i \in DOMAIN s : s[i] = r})

\* C1: every thread of the conversations mapping has at least
\* min_conversation_size members, before and after root filtering.
C1_MinThreadSize ==
    /\ \A i \in DOMAIN conversations :
         Len(conversations[i].messages) >= min_conversation_size
    /\ \A i \in DOMAIN result :
         Len(result[i].messages) >= min_conversation_size

C1_Witness ==
    /\ pc = "done"
    /\ min_conversation_size = 2
    /\ \E i \in DOMAIN result :
         /\ Len(result[i].messages) = 2
         /\ ~is_valid_root(result[i].messages[2].full_text)

\* C2: a root post of the posts table is a member of its thread, is its first
\* element and counts toward the thread size: when the replies to the post
\* plus the post itself reach the minimum, the thread exists and starts with
\* the post.
C2_RootIsFirstMember ==
    (/\ pc = "done"
     /\ input # <<>>
     /\ \A i, j \in DOMAIN input : i # j => input[i].tweet_id # input[j].tweet_id)
    => \A p \in DOMAIN filtered_posts :
         LET K == FormatId(filtered_posts[p].tweet_id)
             n == Cardinality(ReplyIds(db, K))
         IN (n >= 1 /\ n + 1 >= min_conversation_size)
            => \E c \in DOMAIN conversations :
                 /\ conversations[c].root_id = K
                 /\ conversations[c].messages[1].tweet_id = K
                 /\ Len(conversations[c].messages) = n + 1

\* The stored rows that reply to k directly or through other stored replies.
RECURSIVE ReplyClosure(_, _, _)
ReplyClosure(table, S, n) ==
    IF n = 0 THEN S
    ELSE ReplyClosure(table,
                      S \cup {i \in DOMAIN table : table[i].reply_to_id \in S},
                      n - 1)
TransitiveReplies(table, k) ==
    ReplyClosure(table, ReplyIds(table, k), Cardinality(DOMAIN table))

C4_FilterOnRootMessage ==
    \A i \in DOMAIN conversations :
        RootMessage(conversations[i].messages).tweet_id = conversations[i].root_id

\* C5: in every thread adjacent members are in created_at order.
C5_Chronological ==
    /\ \A i \in DOMAIN conversations :
         \A k \in 1..(Len(conversations[i].messages) - 1) :
            conversations[i].messages[k].created_at
               <= conversations[i].messages[k + 1].created_at
    /\ \A i \in DOMAIN result :
         \A k \in 1..(Len(result[i].messages) - 1) :
            result[i].messages[k].created_at <= result[i].messages[k + 1].created_at

C5_Witness ==
    /\ pc = "done"
    /\ \E i \in DOMAIN result :
         /\ Len(result[i].messages) >= 2
         /\ result[i].messages[1].created_at < result[i].messages[2].created_at
         /\ result[i].messages[1].tweet_id > result[i].messages[2].tweet_id

\* C6: in every thread the members are strictly ordered by (created_at, id).
C6_TieBrokenById ==
    \A i \in DOMAIN result :
        \A k \in 1..(Len(result[i].messages) - 1) :
            LET a == result[i].messages[k]
                b == result[i].messages[k + 1]
            IN \/ a.created_at < b.created_at
               \/ a.created_at = b.created_at /\ a.tweet_id < b.tweet_id

HasReplyTarget(row) == row.reply_to_id # NULL \/ row.reply_to_user # NoUser

\* C8: of the rows read so far, the replies file holds exactly those with a
\* reply_to_id or a reply_to_user, the posts file exactly those with neither.
C8_PartitionRule ==
    LET seen == SubSeq(input, 1, split_pos)
    IN /\ replies_file = SelectSeq(seen, HasReplyTarget)
       /\ posts_file = SelectSeq(seen, LAMBDA r : ~HasReplyTarget(r))

C8_Witness ==
    /\ split_pos = Len(input)
    /\ pc = "load"
    /\ \E i \in DOMAIN replies_file :
         replies_file[i].reply_to_id = NULL /\ replies_file[i].reply_to_user # NoUser
    /\ \E i \in DOMAIN posts_file : TRUE

\* C9: the rows read so far are each in exactly one of the two files.
C9_PartitionComplete ==
    LET seen == SubSeq(input, 1, split_pos)
    IN /\ Len(posts_file) + Len(replies_file) = split_pos
       /\ \A r \in {input[i] : i \in DOMAIN input} :
            /\ Count(posts_file, r) + Count(replies_file, r) = Count(seen, r)
            /\ Count(posts_file, r) = 0 \/ Count(replies_file, r) = 0
       /\ pc # "split" => split_pos = Len(input)

C9_Witness ==
    /\ pc = "load"
    /\ Len(input) > PreChunkSize
    /\ posts_file # <<>>
    /\ replies_file # <<>>
    /\ Len(posts_file) + Len(replies_file) = Len(input)

\* C10: the grouping query and the per-thread fetches run when every batch of
\* the replies table has been inserted; a stored reply is a member of the thread
\* of its target whatever batch it was read in.
C10_IndexThenAssemble ==
    pc \in {"assemble", "done"} =>
        /\ pos = replies_len
        /\ DOMAIN stored_in = DOMAIN db
        /\ \A i \in DOMAIN potential_threads :
             potential_threads[i].reply_ids = ReplyIds(db, potential_threads[i].root_id)
        /\ \A i \in DOMAIN conversations :
             ReplyIds(db, conversations[i].root_id)
                \subseteq MemberIds(conversations[i].messages)

\* A reply read in the last batch is a member of the thread of its target.
C10_Witness ==
    /\ pc = "done"
    /\ replies_len > ChunkSize
    /\ \E i \in DOMAIN result :
         \E m \in ReplyIds(db, result[i].root_id) :
            /\ m # result[i].root_id
            /\ stored_in[m] = BatchNo(replies_len - 1)
            /\ m \in MemberIds(result[i].messages)

\* The reply targets that at least n stored rows reply to.
TargetsWithAtLeast(n) ==
    {k \in {db[i].reply_to_id : i \in DOMAIN db} \ {NULL} :
        Cardinality({i \in DOMAIN db : db[i].reply_to_id = k}) >= n}

\* The number of stored rows that reply to k.
ReplyCount(k) == Cardinality({i \in DOMAIN db : db[i].reply_to_id = k})

\* The root ids of a sequence of threads, in its order.
RootIds(threads) == [i \in DOMAIN threads |-> threads[i].root_id]

NonIncreasingCounts(roots) ==
    \A i \in 1..(Len(roots) - 1) : ReplyCount(roots[i]) >= ReplyCount(roots[i + 1])

\* C11: the grouping query returns exactly the reply targets with at least
\* min_conversation_size stored replies, each once, in non-increasing order of
\* their reply count; the threads are assembled in that order and the returned
\* mapping lists them in that order.
C11_GroupsBySizeInOrder ==
    /\ pc = "assemble" =>
         LET roots == RootIds(conversations) \o RootIds(potential_threads)
         IN /\ {roots[i] : i \in DOMAIN roots} = TargetsWithAtLeast(min_conversation_size)
            /\ \A i, j \in DOMAIN roots : roots[i] = roots[j] => i = j
            /\ NonIncreasingCounts(roots)
            /\ \A i \in DOMAIN potential_threads :
                 potential_threads[i].reply_count = ReplyCount(potential_threads[i].root_id)
    /\ pc = "done" =>
         /\ {conversations[i].root_id : i \in DOMAIN conversations}
               = TargetsWithAtLeast(min_conversation_size)
         /\ NonIncreasingCounts(RootIds(conversations))
         /\ NonIncreasingCounts(RootIds(result))

\* Two threads of different sizes are returned, the larger one first.
C11_Witness ==
    /\ pc = "done"
    /\ Len(result) = 2
    /\ ReplyCount(result[1].root_id) > ReplyCount(result[2].root_id)

\* C12: a candidate thread whose assembly raises is absent from the output and
\* nothing else is lost: every other candidate is assembled with all the
\* replies to its root, and the run goes on to return its result.
C12_OnlyFailedThreadSkipped ==
    /\ pc = "assemble" =>
         {conversations[i].root_id : i \in DOMAIN conversations}
            \cup {potential_threads[i].root_id : i \in DOMAIN potential_threads}
          = TargetsWithAtLeast(min_conversation_size) \ failed
    /\ pc = "done" =>
         {conversations[i].root_id : i \in DOMAIN conversations}
          = TargetsWithAtLeast(min_conversation_size) \ failed
    /\ \A i \in DOMAIN conversations :
         /\ conversations[i].root_id \notin failed
         /\ \A m \in DOMAIN db :
              db[m].reply_to_id = conversations[i].root_id
                 => m \in MemberIds(conversations[i].messages)
    /\ \A i \in DOMAIN result : result[i].root_id \notin failed

\* The first candidate raised and a later one is returned.
C12_Witness ==
    /\ pc = "done"
    /\ failed # {}
    /\ result # <<>>
    /\ \E k \in failed :
         ReplyCount(k) > ReplyCount(result[1].root_id)

\* The six rules of the quality filter, on a text and the language detected in it.
SixRules(text, detected) ==
    /\ text.is_str
    /\ ~text.has_url
    /\ text.mentions <= 1
    /\ text.clean_len >= 25
    /\ ~text.emoji_only
    /\ detected = "en"

\* C13: a call of the filter accepts only a text on which all six rules hold,
\* accepts every such text when no sub-check raises, and rejects a text that
\* is made of emoji only.
C13_AcceptIffSixRules ==
    (revision = "chunked" /\ cur # NoCall) =>
        /\ cur.outcome = "accept" => SixRules(cur.text, cur.detected)
        /\ (cur.fault = "none" /\ SixRules(cur.text, cur.detected)) => cur.outcome = "accept"
        /\ cur.text.emoji_only => cur.outcome = "reject"

\* A text at the limits of the rules is accepted after a text failing one rule
\* was rejected.
C13_Witness ==
    /\ revision = "chunked"
    /\ cur # NoCall
    /\ cur.outcome = "accept"
    /\ cur.text.mentions = 1
    /\ cur.text.clean_len = 25
    /\ ft_calls = 2
    /\ ft_accepted = 1

\* C14: no call of the filter raises; a call in which a sub-check raises
\* rejects its message; every row read is evaluated and every accepted row is
\* written or waits for the end of its chunk.
C14_NeverRaises ==
    /\ cur # NoCall =>
         /\ cur.outcome \in {"accept", "reject"}
         /\ cur.fault # "none" => cur.outcome = "reject"
    /\ ft_calls = ft_pos
    /\ ft_written + ft_pending = ft_accepted

\* An exception was caught on the first row of a chunk and the second row of
\* that chunk is accepted and written.
C14_Witness ==
    /\ ft_caught = 1
    /\ ft_pos = 2
    /\ chunk_size >= 2
    /\ cur.outcome = "accept"
    /\ ft_written = 1

\* C15: two consecutive calls of the filter on the same text, neither with a
\* raising sub-check, give the same result.
C15_SameTextSameResult ==
    (revision = "chunked" /\ prev_same # "none") => cur.outcome = prev_same

\* C16: in either revision a text with a URL-like substring is rejected.
C16_UrlRejected ==
    (cur # NoCall /\ cur.text.is_str /\ cur.text.has_url) => cur.outcome = "reject"

\* Row i of the input table is a root post that passes the quality filter and
\* has an author id.
Qualifies(i) ==
    /\ input[i].reply_to_id = NULL
    /\ input[i].reply_to_user = NoUser
    /\ SixRules(input[i].full_text, input[i].full_text.lang)
    /\ input[i].original_user_id.id # NULL

\* The places, key and index, of the user grouping.
GroupEntries ==
    {e \in (DOMAIN user_groups) \X (1..UserMaxRows) : e[2] \in DOMAIN user_groups[e[1]]}

\* The author of the post at a place of the grouping.
AuthorAt(e) == input[user_groups[e[1]][e[2]].tweet_id].original_user_id.id

\* C17: when the grouping is built, every qualifying post is at exactly one
\* place of it, with its id, text and created_at; nothing else is in it; the
\* posts of one author are under one key and the posts of two authors under
\* two keys; the posts of a key are in the order of the table; no key is empty.
\* The rows of the table are numbered by their tweet_id.
C17_GroupedByAuthor ==
    (pc = "load" /\ \A i \in DOMAIN input : input[i].tweet_id = i) =>
        /\ \A i \in DOMAIN input :
             Qualifies(i) =>
                Cardinality({e \in GroupEntries :
                               user_groups[e[1]][e[2]].tweet_id = i}) = 1
        /\ \A e \in GroupEntries :
             LET post == user_groups[e[1]][e[2]]
             IN /\ post.tweet_id \in DOMAIN input
                /\ Qualifies(post.tweet_id)
                /\ post.full_text = input[post.tweet_id].full_text
                /\ post.created_at = input[post.tweet_id].created_at
        /\ \A e, f \in GroupEntries : (AuthorAt(e) = AuthorAt(f)) <=> (e[1] = f[1])
        /\ \A e, f \in GroupEntries :
             (e[1] = f[1] /\ e[2] < f[2])
                => user_groups[e[1]][e[2]].tweet_id < user_groups[f[1]][f[2]].tweet_id
        /\ \A k \in DOMAIN user_groups : user_groups[k] # <<>>

\* The id cells of the batch last given to _process_chunk.
IdValues ==
    {last_chunk[i].tweet_id : i \in DOMAIN last_chunk} \cup {last_chunk[i].reply_to_id : i \in DOMAIN last_chunk}

\* C18: an id value that stands for the logical id n, held as a string, an
\* integer or a float, is given the key n; so two values that stand for the
\* same id, a reply target and the id of the message it targets among them,
\* get the same key.
C18_OneKeyPerLogicalId ==
    \A v \in IdValues : v.val # NULL => format_id(v) = v.val

\* C19: after a partition run that stopped at any point is run again on the
\* same input, the two output files hold together no more rows than the
\* input, and each holds at most one header line.
C19_RerunNoDuplication ==
    /\ Len(posts_file) + Len(replies_file) <= Len(input)
    /\ headers <= 1

\* C20: a row with a malformed id never makes the pass raise, and the rows of
\* its batch whose ids are well-formed are stored.
C20_RowErrorSkipsRow ==
    /\ pc # "raised"
    /\ \A i \in DOMAIN last_chunk :
         (last_chunk[i].tweet_id.val # NULL
            /\ (last_chunk[i].reply_to_id.val # NULL \/ last_chunk[i].reply_to_id.kind = "nan"))
         => last_chunk[i].tweet_id.val \in DOMAIN db

\* The threads assembled so far and the threads returned.
Emitted == {conversations[i] : i \in DOMAIN conversations} \cup {result[i] : i \in DOMAIN result}

\* C27: every member of an emitted thread keyed K replies to K or is K
\* itself, and no message id occurs twice among the members of a thread.
C27_MembersOfKeyOnce ==
    \A t \in Emitted :
        /\ \A j \in DOMAIN t.messages :
              t.messages[j].reply_to_id = t.root_id \/ t.messages[j].tweet_id = t.root_id
        /\ \A j, k \in DOMAIN t.messages :
              t.messages[j].tweet_id = t.messages[k].tweet_id => j = k

\* A returned thread whose root is a stored message that replies to itself.
C27_Witness ==
    /\ pc = "done"
    /\ \E i \in DOMAIN result :
         /\ Len(result[i].messages) >= 2
         /\ \E j \in DOMAIN result[i].messages :
               /\ result[i].messages[j].tweet_id = result[i].root_id
               /\ result[i].messages[j].reply_to_id = result[i].root_id

\* The statistics that filter_conversations does not write.
ThreadStats(st) ==
    <<st.total_conversations, st.meaningful_conversations, st.total_tweets_processed,
      st.max_conversation_length, st.min_conversation_length, st.avg_conversation_length>>

\* C28: the step of root filtering returns threads of its input with their
\* member sequences unchanged, at most once each, leaves its input and the
\* index as they were, and writes only the three filter statistics, with
\* conversations_after_filter <= total_conversations_before_filter.
C28_FilterRemovesWholeThreads ==
    [][(pc = "assemble" /\ pc' = "done") =>
         /\ \A i \in DOMAIN result' : \E j \in DOMAIN conversations : result'[i] = conversations[j]
         /\ \A i, k \in DOMAIN result' : result'[i].root_id = result'[k].root_id => i = k
         /\ conversations' = conversations
         /\ db' = db
         /\ ThreadStats(stats') = ThreadStats(stats)
         /\ stats'.total_conversations_before_filter = Len(conversations)
         /\ stats'.conversations_after_filter = Len(result')
         /\ stats'.conversations_after_filter <= stats'.total_conversations_before_filter]_vars

\* Root filtering dropped a thread and kept another one that has a member
\* whose own text does not pass the filter.
C28_Witness ==
    /\ pc = "done"
    /\ Len(result) < Len(conversations)
    /\ \E i \in DOMAIN result : \E j \in DOMAIN result[i].messages :
          ~is_valid_root(result[i].messages[j].full_text)

\* C24: in every state the statistics can be read without a division by
\* zero: the average read is total_tweets_processed / meaningful_conversations
\* when a thread has been recorded and the stored 0 otherwise, and the
\* retention rate is 0 when there were no threads before filtering.
C24_SnapshotWithoutDivisionByZero ==
    LET snapshot == get_conversation_stats(stats)
    IN /\ snapshot.avg_conversation_length # ZeroDivisionError
       /\ snapshot.filter_retention_rate # ZeroDivisionError
       /\ stats.avg_conversation_length # ZeroDivisionError
       /\ stats.total_conversations > 0 =>
             snapshot.avg_conversation_length =
                 <<stats.total_tweets_processed, stats.meaningful_conversations>>
       /\ stats.total_conversations = 0 => snapshot.avg_conversation_length = <<0, 1>>
       /\ stats.total_conversations_before_filter = 0 =>
             snapshot.filter_retention_rate = <<0, 1>>

\* The statistics were read in the middle of the assembly loop, after a
\* thread was recorded and with candidate threads left.
C24_Witness ==
    /\ pc = "assemble"
    /\ potential_threads # <<>>
    /\ stats.total_conversations > 0
    /\ stats.avg_conversation_length =
          <<stats.total_tweets_processed, stats.meaningful_conversations>>

\* ceil(a / b)
Ceil(a, b) == (a + b - 1) \div b

\* C25: the batches yielded hold no more than chunk_size rows each; when the
\* stream is exhausted they are ceil(N / chunk_size) in number and hold the N
\* rows of the input, N being the row count computed upfront.
C25_BatchCount ==
    /\ split_pos <= batches * chunk_size
    /\ pc # "split" =>
          /\ batches = Ceil(Len(input), chunk_size)
          /\ split_pos = Len(input)
    /\ count_rows(input) = Len(input)

\* C21: a pass in which the write of a batch failed does not complete
\* normally: filter_tweets does not return, and process() does not go on to
\* the grouping, while accepted rows of a failed batch are missing from the
\* filtered posts file.
C21_WriteFailureAborts ==
    (FilterPassDone \/ pc = "load") => lost = 0

\* A header line is written to a file that has no line yet.
HeaderIsFirstLine ==
    /\ headers' # headers => headers = 0 /\ posts_file = <<>> /\ replies_file = <<>>
    /\ filtered_headers' # filtered_headers => filtered_headers = 0 /\ filtered_posts = <<>>

\* C23: each of the three files written by per-batch append holds one header
\* line from its first batch on, whatever the number of batches and of rows
\* they contribute, and that line is written before any row.
C23_OneHeaderPerFile ==
    /\ [](/\ headers = (IF batches > 0 THEN 1 ELSE 0)
          /\ filtered_headers = (IF filter_batches > 0 THEN 1 ELSE 0))
    /\ [][HeaderIsFirstLine]_vars

\* The three files were written in two batches or more each, every batch
\* with no row for the replies file and for the filtered posts file.
C23_Witness ==
    /\ pc = "load"
    /\ batches >= 2
    /\ filter_batches >= 2
    /\ replies_file = <<>>
    /\ filtered_posts = <<>>
    /\ headers = 1
    /\ filtered_headers = 1

\* C22: under a minimum thread size <= 0 the run fails before any pass: no
\* row of the replies file is read, no row is in the index and no thread is
\* assembled or returned.
C22_InvalidMinSizeFailsFast ==
    min_conversation_size <= 0 =>
        /\ pos = 0
        /\ db = <<>>
        /\ conversations = <<>>
        /\ result = <<>>

\* C26: the root filter and the post filter give the same result on the
\* same text.
C26_SameRootAndPostFilter ==
    root_cur # NoCall => (root_cur.outcome = "accept" <=> cur.outcome = "accept")

\* C29: a batch on which _process_chunk raises leaves the index as it was
\* before the batch; the run ends there with the exception, and nothing is
\* assembled or returned.
C29_FailedBatchRolledBack ==
    /\ [][pc' = "raised" => db' = db]_vars
    /\ [][pc = "raised" => pc' = "raised"]_vars
    /\ [](pc = "raised" =>
            potential_threads = <<>> /\ conversations = <<>> /\ result = <<>>)

\* The insert raised in a batch of two rows with well-formed ids, and the
\* first of them is not in the index.
C29_Witness ==
    /\ pc = "raised"
    /\ Len(last_chunk) = 2
    /\ ~Raises(last_chunk)
    /\ last_chunk[1].tweet_id.val # NULL
    /\ last_chunk[1].tweet_id.val \notin DOMAIN db

\* C30: the grouping of the filtered posts table is the same whatever the
\* chunk size it is read with.
C30_GroupingIndependentOfChunkSize ==
    pc = "load" =>
        \A n \in 1..UserMaxRows :
            group_users_by_id(NoGroups, filtered_posts, 0, n) = user_groups

====
